---- MODULE Spec2Model ----
(***************************************************************************)
(* State-machine model of bot.py: the start-up connection to MongoDB, the  *)
(* polling loop's dispatch of an inbound text message to one of the two    *)
(* registered handlers, and the handlers themselves (handle_start_help and *)
(* handle_message) with the store calls and the bot.reply_to calls they    *)
(* make.  A text is a sequence of one-character strings.  The character    *)
(* U+212A (KELVIN SIGN) is written "KELVIN".  The user-facing messages of  *)
(* the source (Thai, Khmer) are written as English glosses.                *)
(***************************************************************************)
EXTENDS Integers, Sequences, FiniteSets, TLC

\* Number of documents of the lots collection.
MaxLots == 2

\* range(3) in connect_mongodb.
MaxAttempts == 3

None == "None"

-----------------------------------------------------------------------------
(* Characters and the texts the chat platform may deliver.                 *)

Digits == {"0", "1", "2", "3", "4", "5", "6", "7", "8", "9"}

Whitespace == {" ", "\n", "\t"}

Texts ==
    { <<"1", "0", "1", "5", "K", "H">>,
      <<"1", "0", "1", "5", "k", "h">>,
      <<"1", "0", "1", "5", "K", "h">>,
      <<"1", "0", "1", "5", "KELVIN", "H">>,
      <<" ", "1", "0", "1", "5", "K", "H", "\n">>,
      <<"2", "0", "2", "0", "K", "H">>,
      <<"3", "0", "3", "0", "K", "H">>,
      <<"1", "0", "1", "K", "H">>,
      <<"1", "0", "1", "5", "K", "H", "X">>,
      <<" ">>,
      <<"/", "h", "e", "l", "p">>,
      <<"/", "s", "t", "a", "r", "t">>,
      <<"/", "h", "e", "l", "p", "m", "e">> }

\* str.strip(): leading and trailing whitespace removed.
RECURSIVE LStrip(_)
LStrip(s) ==
    IF s # <<>> /\ Head(s) \in Whitespace THEN LStrip(Tail(s)) ELSE s

RECURSIVE RStrip(_)
RStrip(s) ==
    IF s # <<>> /\ s[Len(s)] \in Whitespace
    THEN RStrip(SubSeq(s, 1, Len(s) - 1))
    ELSE s

Strip(s) == RStrip(LStrip(s))

\* A pattern letter under re.IGNORECASE: both cases, and for K the Kelvin sign.
MatchesLetter(c, letter) ==
    \/ letter = "K" /\ c \in {"K", "k", "KELVIN"}
    \/ letter = "H" /\ c \in {"H", "h"}

\* The pattern without its end anchor.
MatchCode_NoEnd(s) ==
    /\ Len(s) >= 6
    /\ \A i \in 1..4 : s[i] \in Digits
    /\ MatchesLetter(s[5], "K")
    /\ MatchesLetter(s[6], "H")

\* re.match(r'^\d{4}KH$', s, re.IGNORECASE); $ also matches before a final newline.
MatchCode(s) ==
    /\ Len(s) >= 6
    /\ \A i \in 1..4 : s[i] \in Digits
    /\ MatchesLetter(s[5], "K")
    /\ MatchesLetter(s[6], "H")
    /\ \/ Len(s) = 6
       \/ Len(s) = 7 /\ s[7] = "\n"

\* The first whitespace- or @-delimited token of a text, without its first character
\* (the command word of a text that starts with "/").
RECURSIVE TakeWord(_)
TakeWord(s) ==
    IF s = <<>> \/ Head(s) \in Whitespace \/ Head(s) = "@"
    THEN <<>>
    ELSE <<Head(s)>> \o TakeWord(Tail(s))

CommandWords == { <<"s", "t", "a", "r", "t">>, <<"h", "e", "l", "p">> }

\* The command filter with 'help' left out.
IsCommand_StartOnly(text) ==
    /\ text # <<>>
    /\ Head(text) = "/"
    /\ TakeWord(Tail(text)) = <<"s", "t", "a", "r", "t">>

\* @bot.message_handler(commands=['start', 'help'])
IsCommand(text) ==
    /\ text # <<>>
    /\ Head(text) = "/"
    /\ TakeWord(Tail(text)) \in CommandWords

-----------------------------------------------------------------------------
(* The document store.                                                     *)

ProductDocs ==
    { [id |-> 1, productCode |-> <<"1", "0", "1", "5", "K", "H">>, name |-> "Widget"],
      [id |-> 2, productCode |-> <<"2", "0", "2", "0", "K", "H">>, name |-> "Gadget"] }

\* What find_one returns when no document matches (Python's None).
NoProduct == [id |-> 0, productCode |-> <<>>, name |-> ""]

WarehouseDocs ==
    { [id |-> 1, name |-> "Main"],
      [id |-> 2, name |-> "Annex"] }

Qtys == {-1, 0, 1}

LotDocs ==
    [productId : {1, 2}, warehouse : {1, 2}, qtyOnHand : Qtys,
     status : {"active", "inactive"}]

\* A collection is a set of documents: the lots are listed in one fixed order.
LotRank(d) ==
    ((d.productId * 2 + d.warehouse) * 3 + d.qtyOnHand) * 2
        + (IF d.status = "active" THEN 0 ELSE 1)

LotLists ==
    {l \in [1..MaxLots -> LotDocs] :
        \A i, j \in 1..MaxLots : i < j => LotRank(l[i]) <= LotRank(l[j])}


VARIABLES
    pc,         \* position: "connect", "main", "idle", or a position inside a handler
    attempt,    \* loop variable of connect_mongodb (0 once the function has returned)
    db,         \* the module-level store handle: None or "db"
    polling,    \* bot.polling has been entered
    products,   \* the products collection
    lots,       \* the lots collection
    warehouses, \* the warehouses collection
    msg,        \* message.text of the message being (or last) handled
    handler,    \* the handler the message was dispatched to
    code,       \* product_code
    product,    \* the document find_one returned
    results,    \* the list the aggregation returned
    attempts,   \* the texts of the bot.reply_to calls made for the message
    sent,       \* the replies the chat platform delivered for the message
    storeOps,   \* the store calls made for the message
    path,       \* the branches the handler took for the message
    escaped,    \* an exception left the handler
    lastCode,   \* product_code of the latest summary built
    lastResponse \* the latest summary built

store == <<products, lots, warehouses>>

request == <<msg, handler, code, product, results, attempts, sent, storeOps, path,
             escaped>>

vars == <<pc, attempt, db, polling, products, lots, warehouses, msg, handler, code,
          product, results, attempts, sent, storeOps, path, escaped, lastCode,
          lastResponse>>

-----------------------------------------------------------------------------
(* The queries handle_message runs.                                        *)

\* Letters without their case; the Kelvin sign is a K.
CaseFold(c) ==
    IF c \in {"K", "k", "KELVIN"} THEN "k"
    ELSE IF c \in {"H", "h"} THEN "h"
    ELSE c

FoldText(s) == [i \in DOMAIN s |-> CaseFold(s[i])]

\* A lookup that ignores letter case.
FindOne_IgnoreCase(c) ==
    IF \E p \in products : FoldText(p.productCode) = FoldText(c)
    THEN CHOOSE p \in products : FoldText(p.productCode) = FoldText(c)
    ELSE NoProduct

\* products_collection.find_one({"productCode": product_code})
FindOne(c) ==
    IF \E p \in products : p.productCode = c
    THEN CHOOSE p \in products : p.productCode = c
    ELSE NoProduct

\* The first stage without its status condition.
MatchLots_AnyStatus(pid) == {i \in DOMAIN lots : lots[i].productId = pid}

\* {"$match": {"productId": product_id, "status": "active"}}
MatchLots(pid) ==
    {i \in DOMAIN lots : lots[i].productId = pid /\ lots[i].status = "active"}

RECURSIVE SumQty(_)
SumQty(S) ==
    IF S = {} THEN 0
    ELSE LET i == CHOOSE j \in S : TRUE
         IN  lots[i].qtyOnHand + SumQty(S \ {i})

\* {"$group": {"_id": "$warehouse", "total_qty": {"$sum": "$qtyOnHand"}}}
GroupLots(matched) ==
    { [id |-> w, total_qty |-> SumQty({i \in matched : lots[i].warehouse = w})] :
        w \in {lots[i].warehouse : i \in matched} }

\* {"$lookup": {"from": "warehouses", ...}} followed by {"$unwind": "$warehouse_info"}
LookupUnwind(groups) ==
    LET joined == { [id |-> g.id, total_qty |-> g.total_qty, warehouse_info |-> d] :
                      g \in groups, d \in warehouses }
    IN  {x \in joined : x.warehouse_info.id = x.id}

\* {"$match": {"total_qty": {"$gt": 0}}}
MatchPositive(docs) == {x \in docs : x.total_qty > 0}

\* {"$project": {"warehouse_name": "$warehouse_info.name", "total_qty": 1, "_id": 0}}
Project(x) == [warehouse_name |-> x.warehouse_info.name, total_qty |-> x.total_qty]

Pipeline(pid) == MatchPositive(LookupUnwind(GroupLots(MatchLots(pid))))

\* The lists over a set of documents: $group fixes no order of its output.
Orderings(S) ==
    {f \in [1..Cardinality(S) -> S] : \A i, j \in DOMAIN f : i # j => f[i] # f[j]}

\* list(lots_collection.aggregate(pipeline))
Aggregate(pid) ==
    { [i \in DOMAIN f |-> Project(f[i])] : f \in Orderings(Pipeline(pid)) }

-----------------------------------------------------------------------------
(* The reply texts.                                                        *)

HelpText ==
    << "Please enter the product code you want to look up\n",
       "No spaces or lower-case letters\n",
       "Example: 1015KH" >>

DbUnavailableMsg == << "Cannot connect to the database, please try again later" >>

FormatHelpMsg == << "Please enter a valid product code (example: 1015KH)" >>

ProductNotFoundMsg(c) == << "Product code not found " >> \o c

\* The no-stock reply worded as the product-not-found reply.
NoStockMsg_Same(c) == ProductNotFoundMsg(c)

NoStockMsg(c) == << "No stock found for " >> \o c

GenericMsg == << "The system has a problem, please try again." >>

DigitChars == <<"0", "1", "2", "3", "4", "5", "6", "7", "8", "9">>

RECURSIVE NatStr(_)
NatStr(n) ==
    IF n < 10 THEN <<DigitChars[n + 1]>>
    ELSE NatStr(n \div 10) \o <<DigitChars[(n % 10) + 1]>>

\* An integer as an f-string writes it.
IntStr(n) == IF n < 0 THEN <<"-">> \o NatStr(-n) ELSE NatStr(n)

RECURSIVE FormatRows(_, _)
FormatRows(name, rs) ==
    IF rs = <<>> THEN <<>>
    ELSE << "[warehouse] ", Head(rs).warehouse_name, "\n   -> ", name, " : " >>
         \o IntStr(Head(rs).total_qty) \o << " pcs\n" >>
         \o FormatRows(name, Tail(rs))

FormatResponse(c, name, rs) ==
    << "[box] Summary for " >> \o c \o << " - ", name, "\n" >> \o FormatRows(name, rs)


-----------------------------------------------------------------------------
(* Outcomes of the calls the program makes to its collaborators.           *)

\* MongoClient / ping / list_collection_names in connect_mongodb.
ConnectOutcomes == {"ok", "ConnectionFailure", "OperationFailure", "Exception"}

\* A store call of handle_message returns or raises.
StoreOutcomes == {"ok", "raise"}

\* bot.reply_to delivers the reply and returns, or raises without delivering it.
ReplyOutcomes == {"ok", "raise"}

\* bot.reply_to(message, text)
ReplyTo(text, o) ==
    /\ attempts' = Append(attempts, text)
    /\ sent' = IF o = "ok" THEN Append(sent, text) ELSE sent

\* A bot.reply_to inside the try block, followed by return: an exception it raises
\* is caught by the except clause.
ReplyInTry(text, o) ==
    /\ ReplyTo(text, o)
    /\ pc' = IF o = "ok" THEN "idle" ELSE "except"

\* A store call that writes: the first lot is retired.
StoreReadOnly_Writes ==
    /\ lots' = [lots EXCEPT ![1].status = "inactive"]
    /\ UNCHANGED <<products, warehouses>>

\* The store calls of handle_message (find_one, count_documents, find, aggregate)
\* only read.
StoreReadOnly == UNCHANGED <<products, lots, warehouses>>

\* The guard that never sees a missing handle.
DbIsNone_Never == FALSE

\* if db is None:
DbIsNone == db = None

-----------------------------------------------------------------------------
(* Start-up.                                                               *)

Init ==
    /\ pc = "connect"
    /\ attempt = 0
    /\ db = None
    /\ polling = FALSE
    /\ products = ProductDocs
    /\ lots \in LotLists
    /\ warehouses \in {WarehouseDocs, {w \in WarehouseDocs : w.id = 1}}
    /\ msg = <<>>
    /\ handler = "none"
    /\ code = <<>>
    /\ product = NoProduct
    /\ results = <<>>
    /\ attempts = <<>>
    /\ sent = <<>>
    /\ storeOps = <<>>
    /\ path = <<>>
    /\ escaped = FALSE
    /\ lastCode = <<>>
    /\ lastResponse = <<>>

\* One pass of the loop of connect_mongodb.
Connect(o) ==
    /\ pc = "connect"
    /\ attempt < MaxAttempts
    /\ \/ /\ o = "ok"
          /\ db' = "db"
          /\ pc' = "main"
          /\ attempt' = 0
       \/ /\ o = "ConnectionFailure"
          /\ attempt' = IF attempt + 1 < MaxAttempts THEN attempt + 1 ELSE 0
          /\ pc' = IF attempt + 1 < MaxAttempts THEN "connect" ELSE "main"
          /\ UNCHANGED db
       \/ /\ o \in {"OperationFailure", "Exception"}
          /\ pc' = "main"
          /\ attempt' = 0
          /\ UNCHANGED db
    /\ UNCHANGED <<polling, store, request, lastCode, lastResponse>>

\* db = connect_mongodb(); if db is None: logger.error(...); bot.polling(none_stop=True)
StartPolling ==
    /\ pc = "main"
    /\ polling' = TRUE
    /\ pc' = "idle"
    /\ UNCHANGED <<attempt, db, store, request, lastCode, lastResponse>>

-----------------------------------------------------------------------------
(* The polling loop and the handlers.                                      *)

\* The polling loop hands an update to the first registered handler whose filter
\* accepts it: handle_start_help (commands) before handle_message (any text).
Dispatch(text) ==
    /\ pc = "idle"
    /\ polling
    /\ msg' = text
    /\ handler' = IF IsCommand(text) THEN "handle_start_help" ELSE "handle_message"
    /\ pc' = IF IsCommand(text) THEN "start_help" ELSE "begin"
    /\ code' = <<>>
    /\ product' = NoProduct
    /\ results' = <<>>
    /\ attempts' = <<>>
    /\ sent' = <<>>
    /\ storeOps' = <<>>
    /\ path' = <<"Received">>
    /\ escaped' = FALSE
    /\ UNCHANGED <<attempt, db, polling, store, lastCode, lastResponse>>

\* handle_start_help: no try block, an exception of reply_to leaves the handler.
HandleStartHelp(o) ==
    /\ pc = "start_help"
    /\ ReplyTo(HelpText, o)
    /\ escaped' = (o # "ok")
    /\ pc' = "idle"
    /\ UNCHANGED <<attempt, db, polling, store, msg, handler, code, product, results,
                   storeOps, path, lastCode, lastResponse>>

\* handle_message up to the validation of the product code.
HM_Begin(o) ==
    /\ pc = "begin"
    /\ IF DbIsNone
       THEN /\ ReplyInTry(DbUnavailableMsg, o)
            /\ path' = Append(path, "NoStore")
            /\ UNCHANGED code
       ELSE /\ code' = Strip(msg)
            /\ IF ~MatchCode(code')
               THEN /\ ReplyInTry(FormatHelpMsg, o)
                    /\ path' = Append(path, "Invalid")
               ELSE /\ o = "ok"
                    /\ pc' = "find_one"
                    /\ path' = Append(path, "Valid")
                    /\ UNCHANGED <<attempts, sent>>
    /\ UNCHANGED <<attempt, db, polling, store, msg, handler, product, results,
                   storeOps, escaped, lastCode, lastResponse>>

\* product = products_collection.find_one({"productCode": product_code})
HM_FindOne(o) ==
    /\ pc = "find_one"
    /\ storeOps' = Append(storeOps, "find_one")
    /\ StoreReadOnly
    /\ IF o = "raise"
       THEN /\ pc' = "except"
            /\ UNCHANGED product
       ELSE /\ product' = FindOne(code)
            /\ pc' = IF product' = NoProduct THEN "diagnostics" ELSE "aggregate"
    /\ UNCHANGED <<attempt, db, polling, msg, handler, code, results, attempts, sent,
                   path, escaped, lastCode, lastResponse>>

\* if not product: the diagnostic count and sample queries, then the reply.
HM_NotFound(failAt, o) ==
    /\ pc = "diagnostics"
    /\ StoreReadOnly
    /\ \/ /\ failAt = "count_documents"
          /\ o = "ok"
          /\ storeOps' = Append(storeOps, "count_documents")
          /\ pc' = "except"
          /\ UNCHANGED <<attempts, sent, path>>
       \/ /\ failAt = "find"
          /\ o = "ok"
          /\ storeOps' = storeOps \o <<"count_documents", "find">>
          /\ pc' = "except"
          /\ UNCHANGED <<attempts, sent, path>>
       \/ /\ failAt = "none"
          /\ storeOps' = storeOps \o <<"count_documents", "find">>
          /\ ReplyInTry(ProductNotFoundMsg(code), o)
          /\ path' = Append(path, "NotFound")
    /\ UNCHANGED <<attempt, db, polling, msg, handler, code, product, results,
                   escaped, lastCode, lastResponse>>

\* The aggregation over the lots of the product, and the reply built from it.
HM_Aggregate(so, o) ==
    /\ pc = "aggregate"
    /\ storeOps' = Append(storeOps, "aggregate")
    /\ StoreReadOnly
    /\ IF so = "raise"
       THEN /\ o = "ok"
            /\ pc' = "except"
            /\ UNCHANGED <<results, attempts, sent, path, lastCode, lastResponse>>
       ELSE \E rs \in Aggregate(product.id) :
              /\ results' = rs
              /\ IF rs = <<>>
                 THEN /\ ReplyInTry(NoStockMsg(code), o)
                      /\ path' = Append(path, "NoStock")
                      /\ UNCHANGED <<lastCode, lastResponse>>
                 ELSE /\ ReplyInTry(FormatResponse(code, product.name, rs), o)
                      /\ path' = Append(path, "Found")
                      /\ lastCode' = code
                      /\ lastResponse' = FormatResponse(code, product.name, rs)
    /\ UNCHANGED <<attempt, db, polling, msg, handler, code, product, escaped>>

\* except Exception as e: ...; bot.reply_to(message, <generic failure message>)
HM_Except(o) ==
    /\ pc = "except"
    /\ ReplyTo(GenericMsg, o)
    /\ path' = Append(path, "Error")
    /\ escaped' = (o # "ok")
    /\ pc' = "idle"
    /\ UNCHANGED <<attempt, db, polling, store, msg, handler, code, product, results,
                   storeOps, lastCode, lastResponse>>

Next ==
    \/ \E o \in ConnectOutcomes : Connect(o)
    \/ StartPolling
    \/ \E text \in Texts : Dispatch(text)
    \/ \E o \in ReplyOutcomes : HandleStartHelp(o)
    \/ \E o \in ReplyOutcomes : HM_Begin(o)
    \/ \E o \in StoreOutcomes : HM_FindOne(o)
    \/ \E failAt \in {"none", "count_documents", "find"}, o \in ReplyOutcomes :
          HM_NotFound(failAt, o)
    \/ \E so \in StoreOutcomes, o \in ReplyOutcomes : HM_Aggregate(so, o)
    \/ \E o \in ReplyOutcomes : HM_Except(o)

Spec == Init /\ [][Next]_vars


-----------------------------------------------------------------------------
(* Properties.                                                             *)

InPath(x) == \E i \in DOMAIN path : path[i] = x

\* handle_message has returned (or an exception has left it) for the message.
Handled == handler = "handle_message" /\ pc = "idle"

\* Four digits followed by "KH" in any letter case.
WellFormedCode(s) ==
    /\ Len(s) = 6
    /\ \A i \in 1..4 : s[i] \in Digits
    /\ CaseFold(s[5]) = "k"
    /\ CaseFold(s[6]) = "h"

SlashHelp == <<"/", "h", "e", "l", "p">>

SlashStart == <<"/", "s", "t", "a", "r", "t">>

\* C1: every text message handled by handle_message gets exactly one delivered
\* reply, on every path, also when a store call or a bot.reply_to call raises.
C1_ExactlyOneReply == Handled => Len(sent) = 1

\* The sum of qtyOnHand over the active lots of product pid in warehouse w, taken
\* lot by lot over the first n lots.
RECURSIVE ActiveQty(_, _, _)
ActiveQty(pid, w, n) ==
    IF n = 0 THEN 0
    ELSE ActiveQty(pid, w, n - 1)
         + (IF /\ lots[n].productId = pid
               /\ lots[n].warehouse = w
               /\ lots[n].status = "active"
            THEN lots[n].qtyOnHand ELSE 0)

ExpectedRows(pid) ==
    { [warehouse_name |-> d.name, total_qty |-> ActiveQty(pid, d.id, Len(lots))] :
        d \in {e \in warehouses : ActiveQty(pid, e.id, Len(lots)) > 0} }

\* C2: once the aggregation for a found product has returned, its rows are exactly
\* one row per warehouse that resolves to a Warehouse document and whose sum of
\* qtyOnHand over the product's active lots is greater than zero, each row
\* carrying that sum; the summary reply has one warehouse line per such row.
C2_RowsAreActivePositiveSums ==
    (InPath("Found") \/ InPath("NoStock")) =>
        /\ Len(results) = Cardinality(ExpectedRows(product.id))
        /\ {results[i] : i \in DOMAIN results} = ExpectedRows(product.id)
        /\ InPath("Found") =>
             Cardinality({i \in DOMAIN attempts[1] : attempts[1][i] = "[warehouse] "})
                 = Cardinality(ExpectedRows(product.id))
        /\ InPath("NoStock") <=> ExpectedRows(product.id) = {}

\* A summary whose single row adds up two active lots of one warehouse.
C2_Witness ==
    /\ InPath("Found")
    /\ Len(results) = 1
    /\ results[1].total_qty = 2
    /\ sent = <<FormatResponse(code, product.name, results)>>

C4_NoExceptionEscapes ==
    handler = "handle_message" =>
        /\ ~escaped
        /\ (pc = "idle" /\ InPath("Error")) =>
             (sent # <<>> /\ sent[Len(sent)] = GenericMsg)

\* C5 (as claimed): after a failed start-up the process never polls and never
\* handles or answers a message.
C5_StartupFailureIsFatal ==
    (db = None /\ pc # "connect") => (~polling /\ handler = "none" /\ attempts = <<>>)

\* C5 (amended): a failed start-up is not fatal: the process polls whether or not
\* the store handle is present, and with the handle absent handle_message makes no
\* store call and its first reply is the database-unavailable message.
C5_StartupFailureStillServes ==
    /\ pc \notin {"connect", "main"} => polling
    /\ (db = None /\ handler = "handle_message" /\ pc # "begin") =>
         /\ storeOps = <<>>
         /\ path[2] = "NoStore"
         /\ attempts[1] = DbUnavailableMsg

\* A message answered with the database-unavailable message after a failed start-up.
C5_Witness ==
    /\ db = None
    /\ polling
    /\ Handled
    /\ sent = <<DbUnavailableMsg>>

\* C6: /start and /help go to handle_start_help, never to handle_message, make no
\* store call and are answered with the static usage text, whatever the store handle.
C6_CommandsGetStaticHelp ==
    (msg \in {SlashStart, SlashHelp}) =>
        /\ handler = "handle_start_help"
        /\ storeOps = <<>>
        /\ path = <<"Received">>
        /\ pc \in {"start_help", "idle"}
        /\ pc = "idle" => attempts = <<HelpText>>
        /\ (pc = "idle" /\ ~escaped) => sent = <<HelpText>>

\* /help answered with the usage text while the store handle is absent.
C6_Witness ==
    /\ db = None
    /\ msg = SlashHelp
    /\ pc = "idle"
    /\ sent = <<HelpText>>

\* C7 (as claimed): a text that is not a well-formed code is answered with the
\* format-help message, whatever the store handle.
C7_InvalidAlwaysFormatHelp ==
    (handler = "handle_message" /\ pc # "begin" /\ ~WellFormedCode(Strip(msg))) =>
        /\ path[2] = "Invalid"
        /\ attempts[1] = FormatHelpMsg

\* C7 (amended): with the store handle present such a text goes Received -> Invalid
\* and its first reply is the format-help message; with the handle absent the
\* text is not validated and the first reply is the database-unavailable message.
C7_InvalidFormatHelpWhenConnected ==
    (handler = "handle_message" /\ pc # "begin" /\ ~WellFormedCode(Strip(msg))) =>
        /\ storeOps = <<>>
        /\ IF db = None
           THEN path[2] = "NoStore" /\ attempts[1] = DbUnavailableMsg
           ELSE path[2] = "Invalid" /\ attempts[1] = FormatHelpMsg

\* A code with a trailing letter answered with the format-help message.
C7_Witness ==
    /\ db # None
    /\ msg = <<"1", "0", "1", "5", "K", "H", "X">>
    /\ Handled
    /\ sent = <<FormatHelpMsg>>

\* C8: no step changes the products, lots or warehouses collection.
C8_StoreNeverChanges ==
    [][products' = products /\ lots' = lots /\ warehouses' = warehouses]_vars

\* A not-found handling whose diagnostic queries ran.
C8_Witness ==
    /\ Handled
    /\ storeOps = <<"find_one", "count_documents", "find">>
    /\ sent = <<ProductNotFoundMsg(code)>>

\* C9: a summary built for the product code of the latest summary is that summary
\* again, row order included.
C9_RepeatGivesSameReply ==
    [][(pc = "aggregate" /\ results' # <<>> /\ lastCode = code)
          => lastResponse' = lastResponse]_vars

\* find_one has returned for the message: the handler is at, or has made, the
\* store call that follows it.
LookupReturned == pc \in {"diagnostics", "aggregate"} \/ Len(storeOps) > 1

\* C10: a well-formed code in any letter case passes validation and is the
\* exact-match key of the lookup as typed: a stored product is found only under
\* its own (upper-case) spelling, and any other spelling of its code is answered
\* as product not found.
C10_VerbatimCaseSensitiveLookup ==
    (handler = "handle_message" /\ db # None /\ pc # "begin"
        /\ WellFormedCode(Strip(msg))) =>
        /\ path[2] = "Valid"
        /\ code = Strip(msg)
        /\ LookupReturned =>
             \A p \in products :
                FoldText(p.productCode) = FoldText(code) =>
                    IF p.productCode = code
                    THEN product = p
                    ELSE /\ product = NoProduct
                         /\ ~InPath("Found")
                         /\ ~InPath("NoStock")
                         /\ InPath("NotFound") => attempts[1] = ProductNotFoundMsg(code)
                         /\ (pc = "idle" /\ ~InPath("Error")) =>
                               sent = <<ProductNotFoundMsg(code)>>

\* The lower-case spelling of a stored code answered as product not found.
C10_Witness ==
    /\ msg = <<"1", "0", "1", "5", "k", "h">>
    /\ \E p \in products : p.productCode = <<"1", "0", "1", "5", "K", "H">>
    /\ Handled
    /\ sent = <<ProductNotFoundMsg(msg)>>

====
